---------------------------- MODULE Spec2Model ----------------------------
(***************************************************************************)
(* Model of the eSIM mailer's email pipeline (src/email.rs): provider      *)
(* resolution, template rendering, message construction, transport         *)
(* configuration and the send_email orchestration.                         *)
(*                                                                         *)
(* Rust strings that the code inspects or rewrites (addresses, templates,  *)
(* field values, Content-IDs) are sequences of one-character strings, so   *)
(* that rsplit_once, str::replace and the address parser operate on        *)
(* characters.  Strings that are only formatted into diagnostics are       *)
(* sequences of fragments, one fragment per format! argument or literal.   *)
(***************************************************************************)
EXTENDS Integers, Sequences, FiniteSets, TLC

VARIABLES
    pc,            \* position inside send_email, or "idle" / "returned"
    args,          \* &Args of the current call
    token,         \* OAuth bearer token of the current call
    image_file,    \* contents of the file at image_path, None when unreadable
    count,         \* message count of the current call
    net,           \* what the TLS backend and the SMTP server will answer
    image_data,    \* local: bytes read from image_path
    subject,       \* local: rendered subject
    content_id,    \* local: generated Content-ID
    body_content,  \* local: template.body(args)
    body,          \* local: body_content with the Content-ID spliced in
    email_builder, \* local: the MessageBuilder under construction
    email,         \* local: the built Message
    provider,      \* local: resolved Provider
    mailer,        \* local: configured SmtpTransport
    result,        \* value returned by the call, None while it runs
    attempts,      \* number of mailer.send invocations made by the call
    steps,         \* statements of send_email executed by the call, in order
    stderr,        \* lines written by eprintln! during the call
    calls,         \* number of send_email calls made so far
    rng,           \* UUIDs already produced by Uuid::new_v4 in this process
    history        \* Content-IDs generated by the earlier calls

vars == <<pc, args, token, image_file, count, net, image_data, subject,
          content_id, body_content, body, email_builder, email, provider,
          mailer, result, attempts, steps, stderr, calls, rng, history>>

None == [none |-> TRUE]

----------------------------------------------------------------------------
(* Bounds of the model.                                                    *)

MaxCalls == 2
NumUuids == MaxCalls + 1

----------------------------------------------------------------------------
(* String helpers.                                                         *)

\* s[i..] of a Rust string slice
Suffix(s, i) == SubSeq(s, i, Len(s))

\* str::starts_with
StartsWith(s, p) == Len(p) <= Len(s) /\ SubSeq(s, 1, Len(p)) = p

\* str::contains
Contains(s, p) == \E i \in 1..(Len(s) + 1) : StartsWith(Suffix(s, i), p)

\* byte offsets (1-based) at which pattern p occurs in s
Matches(s, p) == { i \in 1..(Len(s) - Len(p) + 1) : SubSeq(s, i, i + Len(p) - 1) = p }

\* str::replace with a non-empty pattern: non-overlapping matches, left to
\* right, each replaced by `to`; the replacement text is not rescanned.
RECURSIVE Replace(_, _, _)
Replace(s, from, to) ==
    LET m == Matches(s, from) IN
    IF m = {} THEN s
    ELSE LET i == CHOOSE x \in m : \A y \in m : x <= y IN
         SubSeq(s, 1, i - 1) \o to \o Replace(Suffix(s, i + Len(from)), from, to)

Digit(d) == <<"0", "1", "2", "3", "4", "5", "6", "7", "8", "9">>[d + 1]

\* Display of an unsigned integer: decimal digits, no padding
RECURSIVE ToDecimal(_)
ToDecimal(n) ==
    IF n < 10 THEN <<Digit(n)>> ELSE ToDecimal(n \div 10) \o <<Digit(n % 10)>>

\* str::rsplit_once('@'): the text before and after the LAST '@', scanning
\* from the right; None when there is no '@'.
RECURSIVE RsplitAt(_, _)
RsplitAt(s, i) ==
    IF i = 0 THEN None
    ELSE IF s[i] = "@"
         THEN [none |-> FALSE, before |-> SubSeq(s, 1, i - 1), after |-> Suffix(s, i + 1)]
         ELSE RsplitAt(s, i - 1)

\* the same split taken at the FIRST '@' (str::split_once)
RECURSIVE SplitAt(_, _)
SplitAt(s, i) ==
    IF i > Len(s) THEN None
    ELSE IF s[i] = "@"
         THEN [none |-> FALSE, before |-> SubSeq(s, 1, i - 1), after |-> Suffix(s, i + 1)]
         ELSE SplitAt(s, i + 1)

split_once(s) == SplitAt(s, 1)

rsplit_once(s) == RsplitAt(s, Len(s))

----------------------------------------------------------------------------
(* Provider and Provider::from_str.                                        *)

Gmail == "Gmail"
Outlook == "Outlook"
Provider == {Gmail, Outlook}

gmail_com == <<"g", "m", "a", "i", "l", ".", "c", "o", "m">>
outlook_com == <<"o", "u", "t", "l", "o", "o", "k", ".", "c", "o", "m">>
hotmail_com == <<"h", "o", "t", "m", "a", "i", "l", ".", "c", "o", "m">>

\* the Ok and Err values of from_str; ParseProviderError wraps the address
ProviderOk(p) == [ok |-> TRUE, val |-> p]
ParseProviderError(addr) == [ok |-> FALSE, kind |-> "ParseProviderError", detail |-> addr]

\* a from_str that falls back to Gmail for an unknown domain
Provider_from_str_lenient(addr) ==
    LET r == rsplit_once(addr) IN
    IF r = None THEN ParseProviderError(addr)
    ELSE IF r.after \in {outlook_com, hotmail_com} THEN ProviderOk(Outlook)
    ELSE ProviderOk(Gmail)

Provider_from_str(addr) ==
    LET r == rsplit_once(addr) IN
    IF r = None THEN ParseProviderError(addr)
    ELSE IF r.after = gmail_com THEN ProviderOk(Gmail)
    ELSE IF r.after \in {outlook_com, hotmail_com} THEN ProviderOk(Outlook)
    ELSE ParseProviderError(addr)

\* impl Display for Provider
Provider_fmt(p) == IF p = Gmail THEN "Gmail" ELSE "Outlook"

----------------------------------------------------------------------------
(* EmailTemplate.                                                          *)

ph_provider == <<"{", "{", "p", "r", "o", "v", "i", "d", "e", "r", "}", "}">>
ph_name == <<"{", "{", "n", "a", "m", "e", "}", "}">>
ph_data_amount == <<"{", "{", "d", "a", "t", "a", "_", "a", "m", "o", "u", "n", "t", "}", "}">>
ph_time_period == <<"{", "{", "t", "i", "m", "e", "_", "p", "e", "r", "i", "o", "d", "}", "}">>
ph_location == <<"{", "{", "l", "o", "c", "a", "t", "i", "o", "n", "}", "}">>
ph_qr_cid == <<"{", "{", "Q", "R", "_", "C", "I", "D", "}", "}">>

subject_template == <<"[", "{", "{", "p", "r", "o", "v", "i", "d", "e", "r", "}", "}", "]", " ", "{", "{", "l", "o", "c", "a", "t", "i", "o", "n", "}", "}", " ", "e", "S", "I", "M">>

\* templates/email_template.html: an HTML document holding the six
\* placeholders, each as a separate token.
body_template ==
    <<"<", "p", ">", "{", "{", "n", "a", "m", "e", "}", "}", " ", "{", "{", "p", "r", "o", "v", "i", "d", "e", "r", "}", "}", " ", "{", "{", "d", "a", "t", "a", "_", "a", "m", "o", "u", "n", "t", "}", "}", " ", "{", "{", "t", "i", "m", "e", "_", "p", "e", "r", "i", "o", "d", "}", "}", " ", "{", "{", "l", "o", "c", "a", "t", "i", "o", "n", "}", "}", "<", "/", "p", ">", "<", "i", "m", "g", " ", "s", "r", "c", "=", "'", "c", "i", "d", ":", "{", "{", "Q", "R", "_", "C", "I", "D", "}", "}", "'", ">">>

EmailTemplate_subject(a, n) ==
    Replace(Replace(subject_template, ph_provider, a.provider), ph_location, a.location)
        \o <<" ", "-", " ">> \o ToDecimal(n)

\* a body() that forgets the last substitution
EmailTemplate_body_short(a) ==
    Replace(Replace(Replace(Replace(body_template,
        ph_provider, a.provider),
        ph_name, a.name),
        ph_data_amount, a.data_amount),
        ph_time_period, a.time_period)

EmailTemplate_body(a) ==
    Replace(Replace(Replace(Replace(Replace(body_template,
        ph_provider, a.provider),
        ph_name, a.name),
        ph_data_amount, a.data_amount),
        ph_time_period, a.time_period),
        ph_location, a.location)

----------------------------------------------------------------------------
(* Option and Result values.                                               *)

Some(x) == [none |-> FALSE, val |-> x]
IsSome(o) == o # None

Ok(x) == [ok |-> TRUE, val |-> x]
\* an EmailError: its variant and what the variant carries
Err(k, d) == [ok |-> FALSE, kind |-> k, detail |-> d]

----------------------------------------------------------------------------
(* lettre's address parser, as reached through str::parse::<Mailbox>().    *)
(* An address is user@domain split at the last '@'; the user part may not  *)
(* be empty or hold a special character, the domain is dot-separated       *)
(* non-empty labels.                                                       *)

Specials == {"@", " ", "<", ">", ",", ";", ":"}
NotInDomain == Specials \cup {"{", "}", "'", "/", "[", "]"}

ValidUser(u) == Len(u) > 0 /\ \A i \in 1..Len(u) : u[i] \notin Specials

ValidDomain(d) ==
    /\ Len(d) > 0
    /\ \A i \in 1..Len(d) : d[i] \notin NotInDomain
    /\ d[1] # "." /\ d[Len(d)] # "."
    /\ ~ Contains(d, <<".", ".">>)

Mailbox_from_str(s) ==
    LET r == rsplit_once(s) IN
    IF r = None THEN [ok |-> FALSE, error |-> "Missing domain or user"]
    ELSE IF ~ ValidUser(r.before) THEN [ok |-> FALSE, error |-> "Invalid email user"]
    ELSE IF ~ ValidDomain(r.after) THEN [ok |-> FALSE, error |-> "Invalid email domain"]
    ELSE [ok |-> TRUE, val |-> [user |-> r.before, domain |-> r.after]]

\* Display of a parsed mailbox, as written into a header
Mailbox_fmt(m) == m.user \o <<"@">> \o m.domain

----------------------------------------------------------------------------
(* Content-ID.                                                             *)

cid_prefix == <<"q", "r", "_", "i", "m", "a", "g", "e", "_", "c", "i", "d", "@">>

\* Display of the n-th UUID the generator can produce
Uuid_fmt(n) == ToDecimal(n)

\* a Content-ID that leaves the UUID out
NewContentId_fixed(u) == cid_prefix

\* format!("qr_image_cid@{}", uuid)
NewContentId(u) == cid_prefix \o Uuid_fmt(u)

----------------------------------------------------------------------------
(* Transport errors and configure_mailer.                                  *)

\* Display of a lettre transport error: its kind, then its source if any
TransportError_fmt(e) ==
    IF IsSome(e.source) THEN <<e.kind, ": ", e.source.val>> ELSE <<e.kind>>

\* Mechanism::Xoauth2
Xoauth2 == "XOAUTH2"
SmtpPort == 587

SmtpHost(p) == IF p = Gmail THEN <<"s", "m", "t", "p", ".", "g", "m", "a", "i", "l", ".", "c", "o", "m">> ELSE <<"s", "m", "t", "p", "-", "m", "a", "i", "l", ".", "o", "u", "t", "l", "o", "o", "k", ".", "c", "o", "m">>

TlsError == [kind |-> "tls error", source |-> Some("backend unavailable")]

\* a configure_mailer that keeps the password mechanisms as fallback
configure_mailer_fallback(p, email_address, tok, tls) ==
    IF tls = "relay_fails"
    THEN Err("SmtpError", <<"Failed to connect to ", Provider_fmt(p), " SMTP: ">>
                          \o TransportError_fmt(TlsError))
    ELSE IF tls = "tls_fails"
    THEN Err("SmtpError", <<"Failed to configure TLS for ", Provider_fmt(p), ": ">>
                          \o TransportError_fmt(TlsError))
    ELSE Ok([host |-> SmtpHost(p),
             credentials |-> <<email_address, tok>>,
             authentication |-> <<Xoauth2, "PLAIN", "LOGIN">>,
             port |-> SmtpPort,
             tls |-> [required |-> TRUE, domain |-> SmtpHost(p)]])

\* a configure_mailer that reports failures without naming the provider
configure_mailer_anon(p, email_address, tok, tls) ==
    IF tls = "relay_fails"
    THEN Err("SmtpError", <<"Failed to connect to SMTP: ">> \o TransportError_fmt(TlsError))
    ELSE IF tls = "tls_fails"
    THEN Err("SmtpError", <<"Failed to configure TLS: ">> \o TransportError_fmt(TlsError))
    ELSE Ok([host |-> SmtpHost(p),
             credentials |-> <<email_address, tok>>,
             authentication |-> <<Xoauth2>>,
             port |-> SmtpPort,
             tls |-> [required |-> TRUE, domain |-> SmtpHost(p)]])

configure_mailer(p, email_address, tok, tls) ==
    IF tls = "relay_fails"
    THEN Err("SmtpError", <<"Failed to connect to ", Provider_fmt(p), " SMTP: ">>
                          \o TransportError_fmt(TlsError))
    ELSE IF tls = "tls_fails"
    THEN Err("SmtpError", <<"Failed to configure TLS for ", Provider_fmt(p), ": ">>
                          \o TransportError_fmt(TlsError))
    ELSE Ok([host |-> SmtpHost(p),
             credentials |-> <<email_address, tok>>,
             authentication |-> <<Xoauth2>>,
             port |-> SmtpPort,
             tls |-> [required |-> TRUE, domain |-> SmtpHost(p)]])

----------------------------------------------------------------------------
(* Inputs a call can be given.                                             *)

FromAddresses ==
    { <<"a", "@", "g", "m", "a", "i", "l", ".", "c", "o", "m">>, <<"a", "@", "o", "u", "t", "l", "o", "o", "k", ".", "c", "o", "m">>, <<"a", "@", "h", "o", "t", "m", "a", "i", "l", ".", "c", "o", "m">>, <<"a", "@", "y", "a", "h", "o", "o", ".", "c", "o", "m">>,
      <<"a", "@", "G", "m", "a", "i", "l", ".", "c", "o", "m">>, <<"a", "g", "m", "a", "i", "l", ".", "c", "o", "m">>, <<"a", "@", "b", "@", "g", "m", "a", "i", "l", ".", "c", "o", "m">> }

ToAddresses == { <<"r", "@", "e", "x", "a", "m", "p", "l", "e", ".", "c", "o", "m">>, <<"r", ".", "e", "x", "a", "m", "p", "l", "e">> }

BccValues == { None, Some(<<>>), Some(<<"b", "@", "e", "x", "a", "m", "p", "l", "e", ".", "c", "o", "m">>), Some(<<"b", "@", "@">>) }

PlainFields ==
    [provider |-> <<"T", "P">>, name |-> <<"J", "o">>, data_amount |-> <<"5", "G", "B">>,
     time_period |-> <<"3", "0", " ", "d", "a", "y", "s">>, location |-> <<"E", "g", "y", "p", "t">>]

FieldSets == { PlainFields, [PlainFields EXCEPT !.name = ph_qr_cid] }

ArgsOf(from, to, bcc, f) ==
    [email_from |-> from, email_to |-> to, bcc |-> bcc,
     provider |-> f.provider, name |-> f.name, data_amount |-> f.data_amount,
     time_period |-> f.time_period, location |-> f.location]

Tokens == { "fake_token" }

ImageFiles == { None, Some(<<"fake image data">>) }

SmtpAnswers ==
    { [ok |-> TRUE],
      [ok |-> FALSE, kind |-> "internal client error",
       source |-> Some("mechanism does not expect a challenge")],
      [ok |-> FALSE, kind |-> "Connection error", source |-> None] }

TlsAnswers == { "ok", "relay_fails", "tls_fails" }

\* a failed configuration never gets as far as the server
NetAnswers ==
    { [tls |-> t, smtp |-> [ok |-> TRUE]] : t \in TlsAnswers \ {"ok"} }
        \cup { [tls |-> "ok", smtp |-> s] : s \in SmtpAnswers }

Counts == { 1, 12 }

NoArgs == ArgsOf(<<>>, <<>>, None, [provider |-> <<>>, name |-> <<>>,
                 data_amount |-> <<>>, time_period |-> <<>>, location |-> <<>>])

EmptyBuilder == [from |-> None, to |-> None, bcc |-> None, subject |-> None]

----------------------------------------------------------------------------
(* send_email, one action per statement.                                   *)

inputs == <<args, token, image_file, count, net>>
process == <<calls, rng, history>>

\* EmailError::MessageError(format!(...)) as built by the map_err closures,
\* here reported under the SMTP variant
MessageError_as_smtp(what, diag) == Err("SmtpError", <<what, diag>>)

\* EmailError::MessageError(format!("<what>: {}", e))
MessageError(what, diag) == Err("MessageError", <<what, diag>>)

\* the Bcc guard taken whenever a Bcc is given, empty or not
BccToParse_any(bcc) == bcc

\* `if let Some(bcc) = &args.bcc && !bcc.is_empty()`: the address to parse
BccToParse(bcc) == IF IsSome(bcc) /\ bcc.val # <<>> THEN bcc ELSE None

\* the caller invokes send_email(args, token, image_path, count)
Call ==
    /\ pc = "idle"
    /\ calls < MaxCalls
    /\ \E from \in FromAddresses, to \in ToAddresses, bcc \in BccValues, f \in FieldSets :
           args' = ArgsOf(from, to, bcc, f)
    /\ token' \in Tokens
    /\ image_file' \in ImageFiles
    /\ count' \in Counts
    /\ net' \in NetAnswers
    /\ calls' = calls + 1
    /\ pc' = "read_image"
    /\ UNCHANGED <<image_data, subject, content_id, body_content, body, email_builder,
                   email, provider, mailer, result, attempts, steps, stderr, rng, history>>

\* a read that substitutes empty bytes for an unreadable file
ReadImage_default ==
    /\ pc = "read_image"
    /\ steps' = Append(steps, "read_image")
    /\ image_data' = IF IsSome(image_file) THEN image_file ELSE Some(<<>>)
    /\ pc' = "subject"
    /\ UNCHANGED <<inputs, process, subject, content_id, body_content, body, email_builder,
                   email, provider, mailer, result, attempts, stderr>>

\* let image_data = fs::read(image_path)?;
ReadImage ==
    /\ pc = "read_image"
    /\ steps' = Append(steps, "read_image")
    /\ IF IsSome(image_file)
       THEN /\ image_data' = image_file
            /\ pc' = "subject"
            /\ UNCHANGED result
       ELSE /\ result' = Err("IoError", <<"No such file or directory">>)
            /\ pc' = "returned"
            /\ UNCHANGED image_data
    /\ UNCHANGED <<inputs, process, subject, content_id, body_content, body, email_builder,
                   email, provider, mailer, attempts, stderr>>

\* let subject = template.subject(args, count);
RenderSubject ==
    /\ pc = "subject"
    /\ steps' = Append(steps, "subject")
    /\ subject' = Some(EmailTemplate_subject(args, count))
    /\ pc' = "content_id"
    /\ UNCHANGED <<inputs, process, image_data, content_id, body_content, body, email_builder,
                   email, provider, mailer, result, attempts, stderr>>

\* let content_id = format!("qr_image_cid@{}", uuid::Uuid::new_v4());
\* new_v4 hands out a UUID the process has not been given before.
GenerateContentId ==
    /\ pc = "content_id"
    /\ steps' = Append(steps, "content_id")
    /\ \E u \in (1..NumUuids) \ rng :
           /\ content_id' = Some(NewContentId(u))
           /\ rng' = rng \cup {u}
    /\ pc' = "body"
    /\ UNCHANGED <<inputs, calls, history, image_data, subject, body_content, body,
                   email_builder, email, provider, mailer, result, attempts, stderr>>

\* let body_content = template.body(args);
RenderBody ==
    /\ pc = "body"
    /\ steps' = Append(steps, "body")
    /\ body_content' = Some(EmailTemplate_body(args))
    /\ pc' = "splice"
    /\ UNCHANGED <<inputs, process, image_data, subject, content_id, body, email_builder,
                   email, provider, mailer, result, attempts, stderr>>

\* let body = body_content.replace("{{QR_CID}}", &content_id);
SpliceContentId ==
    /\ pc = "splice"
    /\ steps' = Append(steps, "splice")
    /\ body' = Some(Replace(body_content.val, ph_qr_cid, content_id.val))
    /\ pc' = "from"
    /\ UNCHANGED <<inputs, process, image_data, subject, content_id, body_content,
                   email_builder, email, provider, mailer, result, attempts, stderr>>

\* Message::builder().from(email_from.parse().map_err(..)?)
ParseFrom ==
    /\ pc = "from"
    /\ steps' = Append(steps, "from")
    /\ LET r == Mailbox_from_str(args.email_from) IN
       IF r.ok
       THEN /\ email_builder' = [email_builder EXCEPT !.from = Some(r.val)]
            /\ pc' = "to"
            /\ UNCHANGED result
       ELSE /\ result' = MessageError("Invalid from email address: ", r.error)
            /\ pc' = "returned"
            /\ UNCHANGED email_builder
    /\ UNCHANGED <<inputs, process, image_data, subject, content_id, body_content, body,
                   email, provider, mailer, attempts, stderr>>

\* .to(email_to.parse().map_err(..)?).subject(subject);
ParseTo ==
    /\ pc = "to"
    /\ steps' = Append(steps, "to")
    /\ LET r == Mailbox_from_str(args.email_to) IN
       IF r.ok
       THEN /\ email_builder' = [email_builder EXCEPT !.to = Some(r.val),
                                                      !.subject = subject]
            /\ pc' = "bcc"
            /\ UNCHANGED result
       ELSE /\ result' = MessageError("Invalid to email address: ", r.error)
            /\ pc' = "returned"
            /\ UNCHANGED email_builder
    /\ UNCHANGED <<inputs, process, image_data, subject, content_id, body_content, body,
                   email, provider, mailer, attempts, stderr>>

\* if let Some(bcc) = &args.bcc && !bcc.is_empty() { email_builder.bcc(..?) }
ParseBcc ==
    /\ pc = "bcc"
    /\ LET b == BccToParse(args.bcc) IN
       IF IsSome(b)
       THEN LET r == Mailbox_from_str(b.val) IN
            /\ steps' = Append(steps, "bcc")
            /\ IF r.ok
               THEN /\ email_builder' = [email_builder EXCEPT !.bcc = Some(r.val)]
                    /\ pc' = "multipart"
                    /\ UNCHANGED result
               ELSE /\ result' = MessageError("Invalid BCC email address: ", r.error)
                    /\ pc' = "returned"
                    /\ UNCHANGED email_builder
       ELSE /\ pc' = "multipart"
            /\ UNCHANGED <<steps, email_builder, result>>
    /\ UNCHANGED <<inputs, process, image_data, subject, content_id, body_content, body,
                   email, provider, mailer, attempts, stderr>>

\* email_builder.multipart(MultiPart::related().singlepart(html).singlepart(inline))
\* ContentType::parse("image/png") parses a constant and the builder holds a
\* From and a To, so neither map_err closure of this statement runs.
BuildMultipart ==
    /\ pc = "multipart"
    /\ steps' = Append(steps, "multipart")
    /\ email' = Some([from |-> email_builder.from.val,
                      to |-> email_builder.to.val,
                      bcc |-> email_builder.bcc,
                      subject |-> email_builder.subject.val,
                      multipart |-> "related",
                      parts |-> << [content_type |-> "text/html",
                                    disposition |-> "none",
                                    content_id |-> None,
                                    body |-> body.val],
                                   [content_type |-> "image/png",
                                    disposition |-> "inline",
                                    content_id |-> content_id,
                                    body |-> image_data.val] >>])
    /\ pc' = "provider"
    /\ UNCHANGED <<inputs, process, image_data, subject, content_id, body_content, body,
                   email_builder, provider, mailer, result, attempts, stderr>>

\* let provider: Provider = email_from.parse()?;
\* `?` turns the ParseProviderError into EmailError::UnsupportedProvider.
ResolveProvider ==
    /\ pc = "provider"
    /\ steps' = Append(steps, "provider")
    /\ LET r == Provider_from_str(args.email_from) IN
       IF r.ok
       THEN /\ provider' = Some(r.val)
            /\ pc' = "mailer"
            /\ UNCHANGED result
       ELSE /\ result' = Err("UnsupportedProvider", r.detail)
            /\ pc' = "returned"
            /\ UNCHANGED provider
    /\ UNCHANGED <<inputs, process, image_data, subject, content_id, body_content, body,
                   email_builder, email, mailer, attempts, stderr>>

\* let mailer = configure_mailer(&provider, email_from, token)?;
ConfigureMailer ==
    /\ pc = "mailer"
    /\ steps' = Append(steps, "mailer")
    /\ LET r == configure_mailer(provider.val, args.email_from, token, net.tls) IN
       IF r.ok
       THEN /\ mailer' = Some(r.val)
            /\ pc' = "send"
            /\ UNCHANGED result
       ELSE /\ result' = r
            /\ pc' = "returned"
            /\ UNCHANGED mailer
    /\ UNCHANGED <<inputs, process, image_data, subject, content_id, body_content, body,
                   email_builder, email, provider, attempts, stderr>>

\* the diagnostics of a failed mailer.send: both eprintln! lines
SendDiagnostics(e) ==
    <<"Could not send email: " \o e.kind>>
        \o (IF IsSome(e.source) THEN <<"Error source: " \o e.source.val>> ELSE <<>>)

\* a submission that is tried again after a failure
Submit_retry ==
    /\ pc = "send"
    /\ steps' = Append(steps, "send")
    /\ attempts' = attempts + 1
    /\ IF net.smtp.ok
       THEN /\ result' = Ok(<<>>)
            /\ pc' = "returned"
            /\ UNCHANGED stderr
       ELSE /\ stderr' = stderr \o SendDiagnostics(net.smtp)
            /\ IF attempts < 1
               THEN /\ pc' = "send"
                    /\ UNCHANGED result
               ELSE /\ result' = Err("SmtpError", <<"Could not send email: ">>
                                                  \o TransportError_fmt(net.smtp))
                    /\ pc' = "returned"
    /\ UNCHANGED <<inputs, process, image_data, subject, content_id, body_content, body,
                   email_builder, email, provider, mailer>>

\* match mailer.send(&email) { Ok(_) => Ok(()), Err(e) => Err(SmtpError(..)) }
Submit ==
    /\ pc = "send"
    /\ steps' = Append(steps, "send")
    /\ attempts' = attempts + 1
    /\ IF net.smtp.ok
       THEN /\ result' = Ok(<<>>)
            /\ UNCHANGED stderr
       ELSE /\ stderr' = stderr \o SendDiagnostics(net.smtp)
            /\ result' = Err("SmtpError", <<"Could not send email: ">>
                                          \o TransportError_fmt(net.smtp))
    /\ pc' = "returned"
    /\ UNCHANGED <<inputs, process, image_data, subject, content_id, body_content, body,
                   email_builder, email, provider, mailer>>

\* the caller takes the result; the call's arguments and locals are dropped
Return ==
    /\ pc = "returned"
    /\ pc' = "idle"
    /\ history' = IF IsSome(content_id) THEN Append(history, content_id.val) ELSE history
    /\ args' = NoArgs
    /\ token' = ""
    /\ image_file' = None
    /\ count' = 0
    /\ net' = [tls |-> "ok", smtp |-> [ok |-> TRUE]]
    /\ image_data' = None
    /\ subject' = None
    /\ content_id' = None
    /\ body_content' = None
    /\ body' = None
    /\ email_builder' = EmptyBuilder
    /\ email' = None
    /\ provider' = None
    /\ mailer' = None
    /\ result' = None
    /\ attempts' = 0
    /\ steps' = <<>>
    /\ stderr' = <<>>
    /\ UNCHANGED <<calls, rng>>

\* no call in progress: no inputs other than args, no locals
NoFrame ==
    /\ token = ""
    /\ image_file = None
    /\ count = 0
    /\ net = [tls |-> "ok", smtp |-> [ok |-> TRUE]]
    /\ image_data = None
    /\ subject = None
    /\ content_id = None
    /\ body_content = None
    /\ body = None
    /\ email_builder = EmptyBuilder
    /\ email = None
    /\ provider = None
    /\ mailer = None
    /\ result = None
    /\ attempts = 0
    /\ steps = <<>>
    /\ stderr = <<>>

Init ==
    /\ pc = "idle"
    /\ args = NoArgs
    /\ NoFrame
    /\ calls = 0
    /\ rng = {}
    /\ history = <<>>

Next ==
    \/ Call
    \/ ReadImage
    \/ RenderSubject
    \/ GenerateContentId
    \/ RenderBody
    \/ SpliceContentId
    \/ ParseFrom
    \/ ParseTo
    \/ ParseBcc
    \/ BuildMultipart
    \/ ResolveProvider
    \/ ConfigureMailer
    \/ Submit
    \/ Return

Spec == Init /\ [][Next]_vars

----------------------------------------------------------------------------
(* Provider::from_str on its own: one parse of one address.                *)

ResolveLocals ==
    { <<>>, <<"a">>, <<"f", "o", "o", "b", "a", "r">>, <<"a", "@", "b">>, <<"g", "m", "a", "i", "l", ".", "c", "o", "m">>, <<"a", "@", "g", "m", "a", "i", "l", ".", "c", "o", "m">>, <<"A", ".", "b">>, <<"@">> }

ResolveTails ==
    { <<"@", "g", "m", "a", "i", "l", ".", "c", "o", "m">>, <<"@", "o", "u", "t", "l", "o", "o", "k", ".", "c", "o", "m">>, <<"@", "h", "o", "t", "m", "a", "i", "l", ".", "c", "o", "m">>, <<"@", "y", "a", "h", "o", "o", ".", "c", "o", "m">>,
      <<"@", "G", "m", "a", "i", "l", ".", "c", "o", "m">>, <<"@", "G", "M", "A", "I", "L", ".", "C", "O", "M">>, <<"@", "m", "a", "i", "l", ".", "g", "m", "a", "i", "l", ".", "c", "o", "m">>, <<"@", "g", "m", "a", "i", "l", ".", "c", "o", "m", ".">>,
      <<"@", "g", "m", "a", "i", "l", ".", "c", "o">>, <<"@", "O", "u", "t", "l", "o", "o", "k", ".", "c", "o", "m">>, <<"@", "x", ".", "h", "o", "t", "m", "a", "i", "l", ".", "c", "o", "m">>, <<"g", "m", "a", "i", "l", ".", "c", "o", "m">>,
      <<"@">>, <<>> }

ResolveInputs == { l \o t : l \in ResolveLocals, t \in ResolveTails }

InitFromStr ==
    /\ pc = "from_str"
    /\ args \in { [NoArgs EXCEPT !.email_from = a] : a \in ResolveInputs }
    /\ NoFrame
    /\ calls = 0
    /\ rng = {}
    /\ history = <<>>

\* email.parse::<Provider>()
FromStr ==
    /\ pc = "from_str"
    /\ result' = Provider_from_str(args.email_from)
    /\ pc' = "from_str_returned"
    /\ UNCHANGED <<inputs, process, image_data, subject, content_id, body_content, body,
                   email_builder, email, provider, mailer, attempts, steps, stderr>>

SpecFromStr == InitFromStr /\ [][FromStr]_vars

----------------------------------------------------------------------------
(* EmailTemplate::body on its own: one rendering of one request.           *)

FieldValues == { <<"J", "o">>, <<"5", " ", "G", "B">>, ph_name, ph_location, ph_qr_cid }

InitBody ==
    /\ pc = "body_only"
    /\ \E p \in FieldValues, n \in FieldValues, d \in FieldValues,
          t \in FieldValues, l \in FieldValues :
           args = ArgsOf(<<>>, <<>>, None,
                         [provider |-> p, name |-> n, data_amount |-> d,
                          time_period |-> t, location |-> l])
    /\ NoFrame
    /\ calls = 0
    /\ rng = {}
    /\ history = <<>>

\* template.body(&args)
Body ==
    /\ pc = "body_only"
    /\ body_content' = Some(EmailTemplate_body(args))
    /\ pc' = "body_returned"
    /\ UNCHANGED <<inputs, process, image_data, subject, content_id, body, email_builder,
                   email, provider, mailer, result, attempts, steps, stderr>>

SpecBody == InitBody /\ [][Body]_vars

----------------------------------------------------------------------------
(* Vocabulary of the properties.                                           *)

HasAt(s) == \E i \in 1..Len(s) : s[i] = "@"

\* position of the last '@' of s
LastAt(s) == CHOOSE i \in 1..Len(s) : s[i] = "@" /\ \A j \in (i + 1)..Len(s) : s[j] # "@"

\* the substring after the last '@'
DomainOf(s) == Suffix(s, LastAt(s) + 1)

GmailDomains == { gmail_com }
OutlookDomains == { outlook_com, hotmail_com }

SupportedSender(s) == HasAt(s) /\ DomainOf(s) \in GmailDomains \cup OutlookDomains

Done(step) == \E i \in 1..Len(steps) : steps[i] = step

BccGiven == IsSome(args.bcc) /\ args.bcc.val # <<>>

\* the statement of message building that fails for the current inputs
BuildFailure ==
    IF ~ Mailbox_from_str(args.email_from).ok THEN "from"
    ELSE IF ~ Mailbox_from_str(args.email_to).ok THEN "to"
    ELSE IF BccGiven /\ ~ Mailbox_from_str(args.bcc.val).ok THEN "bcc"
    ELSE "none"

\* the first statement, in the order of the pipeline, that fails for the
\* current inputs, and the error variant it produces
FirstFailure ==
    IF image_file = None THEN <<"read_image", "IoError">>
    ELSE IF BuildFailure # "none" THEN <<BuildFailure, "MessageError">>
    ELSE IF ~ SupportedSender(args.email_from) THEN <<"provider", "UnsupportedProvider">>
    ELSE IF net.tls # "ok" THEN <<"mailer", "SmtpError">>
    ELSE IF ~ net.smtp.ok THEN <<"send", "SmtpError">>
    ELSE <<"none", "Ok">>

Failed(kind) == pc = "returned" /\ ~ result.ok /\ result.kind = kind

BraceFree(s) == \A i \in 1..Len(s) : s[i] \notin {"{", "}"}

FieldsOf(a) == <<a.provider, a.name, a.data_amount, a.time_period, a.location>>

FieldPlaceholders == <<ph_provider, ph_name, ph_data_amount, ph_time_period, ph_location>>

----------------------------------------------------------------------------
(* Properties.                                                             *)

\* C1: Provider::from_str returns Gmail exactly when the text after the last
\* '@' is literally gmail.com, Outlook exactly when it is literally
\* outlook.com or hotmail.com, and otherwise (other domain, other letter
\* case, sub-domain, no '@') the error carrying the whole input unchanged.
C1_FromStrExactMatch ==
    pc = "from_str_returned" =>
        LET s == args.email_from IN
        /\ (result = ProviderOk(Gmail)) <=> (HasAt(s) /\ DomainOf(s) \in GmailDomains)
        /\ (result = ProviderOk(Outlook)) <=> (HasAt(s) /\ DomainOf(s) \in OutlookDomains)
        /\ ~ SupportedSender(s) =>
               /\ ~ result.ok
               /\ result.kind = "ParseProviderError"
               /\ result.detail = s

C1_Witness ==
    /\ pc = "from_str_returned"
    /\ args.email_from = <<"a", "@", "b", "@", "m", "a", "i", "l", ".", "g", "m", "a", "i", "l", ".", "c", "o", "m">>
    /\ ~ result.ok
    /\ result.detail = <<"a", "@", "b", "@", "m", "a", "i", "l", ".", "g", "m", "a", "i", "l", ".", "c", "o", "m">>

\* C2 as stated, in the case its last clause singles out (the image is
\* readable, as in the test that the claim cites): every call whose sender is
\* at an unsupported domain fails with UnsupportedProvider, also when a
\* message-build failure holds in the same call, and never configures a
\* transport or submits.
C2_UnsupportedAlwaysWins ==
    (pc = "returned" /\ IsSome(image_file) /\ ~ SupportedSender(args.email_from)) =>
        /\ ~ result.ok
        /\ result.kind = "UnsupportedProvider"
        /\ mailer = None
        /\ attempts = 0

\* C2 amended: a call whose sender is at an unsupported domain fails without
\* configuring a transport or submitting; its error is UnsupportedProvider,
\* carrying the sender address, when the image read and the message build
\* succeed, and otherwise the IoError or MessageError of that earlier step.
C2_UnsupportedStopsBeforeTransport ==
    (pc # "idle" /\ ~ SupportedSender(args.email_from)) =>
        /\ mailer = None
        /\ attempts = 0
        /\ ~ Done("mailer") /\ ~ Done("send")
        /\ pc \notin {"mailer", "send"}
        /\ pc = "returned" =>
               /\ ~ result.ok
               /\ result.kind = (IF image_file = None THEN "IoError"
                                 ELSE IF BuildFailure # "none" THEN "MessageError"
                                 ELSE "UnsupportedProvider")
               /\ result.kind = "UnsupportedProvider" => result.detail = args.email_from

C2_Witness ==
    /\ Failed("UnsupportedProvider")
    /\ ~ SupportedSender(args.email_from)
    /\ Done("multipart")
    /\ IsSome(email)

\* C3: mailer.send is reached only after the image was read, the message
\* built, the provider resolved from the sender address and the transport
\* configured.
C3_SubmitOnlyWhenComplete ==
    (pc = "send" \/ attempts > 0 \/ Done("send")) =>
        /\ IsSome(image_file) /\ image_data = image_file
        /\ IsSome(email)
        /\ email.val.parts[2].body = image_file.val
        /\ IsSome(provider)
        /\ SupportedSender(args.email_from)
        /\ IsSome(mailer)

C3_Witness == pc = "returned" /\ attempts = 1 /\ IsSome(email) /\ IsSome(mailer)

Rank(p) ==
    CASE p = "idle" -> 0
      [] p = "read_image" -> 1
      [] p = "subject" -> 2
      [] p = "content_id" -> 3
      [] p = "body" -> 4
      [] p = "splice" -> 5
      [] p = "from" -> 6
      [] p = "to" -> 7
      [] p = "bcc" -> 8
      [] p = "multipart" -> 9
      [] p = "provider" -> 10
      [] p = "mailer" -> 11
      [] p = "send" -> 12
      [] OTHER -> 13

\* C5: a call makes at most one submission attempt; the attempt ends the
\* call, in Failed(SmtpError) when it fails; no earlier position is entered
\* again and a finished call only hands its result back.
C5_SingleAttempt ==
    [][ /\ attempts' <= 1
        /\ pc = "send" =>
              /\ attempts' = attempts + 1
              /\ pc' = "returned"
              /\ ~ net.smtp.ok => (~ result'.ok /\ result'.kind = "SmtpError")
        /\ pc \notin {"idle", "returned"} =>
              (Rank(pc') > Rank(pc) /\ calls' = calls)
        /\ pc = "returned" => (pc' = "idle" /\ calls' = calls) ]_vars

C5_Witness == Failed("SmtpError") /\ attempts = 1 /\ Done("send")

\* C6: the Content-ID put in place of {{QR_CID}} in the HTML part is the one
\* attached to the inline image part of the same message, and the
\* Content-IDs of different calls differ.
C6_ContentIdBinding ==
    /\ IsSome(email) =>
          LET html == email.val.parts[1]
              inline == email.val.parts[2] IN
          /\ IsSome(inline.content_id)
          /\ html.body = Replace(body_content.val, ph_qr_cid, inline.content_id.val)
          /\ Contains(html.body, inline.content_id.val)
          /\ ~ Contains(html.body, ph_qr_cid)
          /\ \A h \in 1..Len(history) : ~ Contains(html.body, history[h])
    /\ IsSome(content_id) => \A h \in 1..Len(history) : history[h] # content_id.val
    /\ \A g, h \in 1..Len(history) : history[g] = history[h] => g = h

C6_Witness ==
    /\ calls = 2
    /\ Len(history) = 1
    /\ IsSome(email)
    /\ Contains(email.val.parts[1].body, content_id.val)

\* the property of body() that C7 states
BodyResolved(a, b) ==
    /\ \A k \in 1..5 : Contains(b, FieldsOf(a)[k])
    /\ \A k \in 1..5 : ~ Contains(b, FieldPlaceholders[k])
    /\ Contains(b, ph_qr_cid)

\* C7 as stated: for every request, body() contains the five field values
\* verbatim and none of the five placeholder tokens, and leaves {{QR_CID}}.
C7_BodyResolvedAlways ==
    pc = "body_returned" => BodyResolved(args, body_content.val)

\* C7 amended: for every request whose five field values contain no '{' and
\* no '}', body() contains the five field values verbatim and none of the
\* five placeholder tokens, and leaves {{QR_CID}} unresolved.
C7_BodyResolvedBraceFree ==
    (pc = "body_returned" /\ \A k \in 1..5 : BraceFree(FieldsOf(args)[k])) =>
        BodyResolved(args, body_content.val)

C7_Witness ==
    /\ pc = "body_returned"
    /\ args.name = <<"J", "o">>
    /\ args.location = <<"5", " ", "G", "B">>
    /\ \A k \in 1..5 : BraceFree(FieldsOf(args)[k])
    /\ Contains(body_content.val, <<"<", "p", ">", "J", "o", " ">>)

GmailHost == <<"s", "m", "t", "p", ".", "g", "m", "a", "i", "l", ".", "c", "o", "m">>
OutlookHost == <<"s", "m", "t", "p", "-", "m", "a", "i", "l", ".", "o", "u", "t", "l", "o", "o", "k", ".", "c", "o", "m">>

\* C9: the configured transport allows XOAUTH2 only, uses port 587 and
\* mandatory TLS bound to the host of the provider resolved from the sender
\* address, which is also the relay, and holds (sender address, token).
C9_TransportProfile ==
    IsSome(mailer) =>
        LET m == mailer.val IN
        /\ m.authentication = <<Xoauth2>>
        /\ m.port = 587
        /\ m.tls.required
        /\ m.tls.domain = m.host
        /\ m.credentials = <<args.email_from, token>>
        /\ IsSome(provider)
        /\ provider.val = Gmail =>
               (m.host = GmailHost /\ DomainOf(args.email_from) \in GmailDomains)
        /\ provider.val = Outlook =>
               (m.host = OutlookHost /\ DomainOf(args.email_from) \in OutlookDomains)

C9_Witness ==
    /\ IsSome(mailer)
    /\ DomainOf(args.email_from) = hotmail_com
    /\ mailer.val.host = OutlookHost
    /\ attempts = 1

InDetail(x) == \E i \in 1..Len(result.detail) : result.detail[i] = x

\* the transport error behind the SmtpError of the current call
Underlying == IF net.tls # "ok" THEN TlsError ELSE net.smtp

\* C10 as stated: every SmtpError, from configuration or from submission,
\* carries the provider name and the transport diagnostic with its cause.
C10_SmtpErrorNamesProvider ==
    Failed("SmtpError") =>
        /\ InDetail(Provider_fmt(provider.val))
        /\ InDetail(Underlying.kind)
        /\ IsSome(Underlying.source) => InDetail(Underlying.source.val)

\* C10 amended: every SmtpError carries the transport diagnostic with its
\* cause when there is one; an SmtpError from transport configuration also
\* carries the provider name, an SmtpError from the submission is "Could not
\* send email: " followed by that diagnostic and does not name the provider.
C10_SmtpErrorDiagnostic ==
    Failed("SmtpError") =>
        /\ InDetail(Underlying.kind)
        /\ IsSome(Underlying.source) => InDetail(Underlying.source.val)
        /\ attempts = 0 => InDetail(Provider_fmt(provider.val))
        /\ attempts = 1 =>
              /\ result.detail = <<"Could not send email: ">> \o TransportError_fmt(net.smtp)
              /\ ~ InDetail(Provider_fmt(provider.val))

C10_Witness ==
    /\ Failed("SmtpError")
    /\ attempts = 1
    /\ IsSome(net.smtp.source)
    /\ InDetail("mechanism does not expect a challenge")

====
